---- MODULE Spec2Model ----
(***************************************************************************)
(* Model of the prtoken command line tool (src/prtoken/main.cc): the       *)
(* process entry point `main`, the issuance workflow                       *)
(* `GenerateAndStoreTokens`, and the library calls it composes             *)
(* (key generation, Issuer, storage).  The library operators follow the    *)
(* documented contract of the library.                                     *)
(***************************************************************************)
EXTENDS Integers, Sequences, FiniteSets, Bags, TLC

\* ------------------------------------------------------------------ bounds

\* Number of process invocations (runs of the binary) in one behaviour.
MaxRuns == 2

\* The wall clock advances at most this many ticks in one behaviour.
MaxClock == 2

\* Clock resolution: ticks per second (absl::Time is far finer than 1 s).
TicksPerSecond == 2

\* ------------------------------------------------------------ flag values

\* --ip values: an IPv4 literal, an IPv6 literal, a malformed string and
\* the flag's default, the empty string.
IpValues == {"192.0.2.1", "2001:db8::1", "not-an-ip", ""}

\* --num_tokens values (int flag).
NumTokensValues == {-1, 0, 3, 10, 100}

\* --p_reveal values as typed on the command line, in hundredths
\* (20 is the text "0.2", -50 is "-0.5", 150 is "1.5").
PRevealValues == {-50, 0, 20, 53, 70, 100, 150}

\* --output_dir values.
OutputDirValues == {"/tmp/"}

\* --custom_db_filename values ("" is the flag's default: not supplied).
CustomDbValues == {"", "shared.db"}

\* Positional command: "" stands for a command line without a command.
CommandValues == {"", "issue", "verify", "bogus"}

\* ------------------------------------------------------- float arithmetic
\* --p_reveal is an IEEE-754 binary32 flag; `p_reveal * num_tokens` is a
\* binary32 multiplication and static_cast<int> truncates toward zero.
\* A float is [sign, m, e] with value sign * m * 2^-e.

FloatMantissaBits == 24

RECURSIVE Pow2(_)
Pow2(n) == IF n = 0 THEN 1 ELSE 2 * Pow2(n - 1)

Abs(x) == IF x < 0 THEN -x ELSE x

Sign(x) == IF x < 0 THEN -1 ELSE 1

\* Round-to-nearest, ties-to-even, of num / den (num >= 0, den > 0).
RoundHalfEven(num, den) ==
    LET q == num \div den
        r == num % den
    IN  IF 2 * r > den \/ (2 * r = den /\ q % 2 = 1) THEN q + 1 ELSE q

\* Least e with a * 2^e / den >= 2^(FloatMantissaBits - 1)   (a > 0).
RECURSIVE NormExp(_, _, _)
NormExp(a, den, e) ==
    IF a * Pow2(e) >= den * Pow2(FloatMantissaBits - 1)
    THEN e ELSE NormExp(a, den, e + 1)

\* Least s with p / 2^s < 2^FloatMantissaBits.
RECURSIVE ShiftFor(_, _)
ShiftFor(p, s) ==
    IF p \div Pow2(s) < Pow2(FloatMantissaBits) THEN s ELSE ShiftFor(p, s + 1)

\* The float flag parsed from the decimal text k/100 (correctly rounded).
ParseFloat(k) ==
    IF k = 0 THEN [sign |-> 1, m |-> 0, e |-> 0]
    ELSE LET e == NormExp(Abs(k), 100, 0)
         IN  [sign |-> Sign(k),
              m    |-> RoundHalfEven(Abs(k) * Pow2(e), 100),
              e    |-> e]

\* float * int -> float: the int converts exactly (|n| < 2^24), the exact
\* product is rounded once to FloatMantissaBits significant bits.
FloatMulInt(f, n) ==
    LET p == f.m * Abs(n)
        s == ShiftFor(p, 0)
    IN  [sign |-> f.sign * Sign(n),
         m    |-> RoundHalfEven(p, Pow2(s)),
         e    |-> f.e - s]

\* static_cast<int>(float): truncation toward zero.
FloatToInt(f) ==
    f.sign * (IF f.e >= 0 THEN f.m \div Pow2(f.e) ELSE f.m * Pow2(-f.e))

\* ---------------------------------------------------------- IP addresses
\* inet_pton on the --ip values: the parsed bytes, or <<>> for "not 1".

inet_pton_AF_INET(ip_string) ==
    IF ip_string = "192.0.2.1" THEN <<192, 0, 2, 1>> ELSE <<>>

inet_pton_AF_INET6(ip_string) ==
    IF ip_string = "2001:db8::1"
    THEN <<32, 1, 13, 184, 0, 0, 0, 0, 0, 0, 0, 0, 0, 0, 0, 1>>
    ELSE <<>>

\* Mutant: the validation accepts every string.
IsValidIPAddress_AcceptAll(ip_string) == TRUE

IsValidIPAddress(ip_string) ==
    \/ inet_pton_AF_INET(ip_string) # <<>>
    \/ inet_pton_AF_INET6(ip_string) # <<>>

\* IPv4 is padded to the IPv4-mapped IPv6 form ::ffff:a.b.c.d.
IPStringToByteArray(ip_string) ==
    IF inet_pton_AF_INET6(ip_string) # <<>>
    THEN [status |-> "Ok", value |-> inet_pton_AF_INET6(ip_string)]
    ELSE IF inet_pton_AF_INET(ip_string) # <<>>
    THEN [status |-> "Ok",
          value  |-> [i \in 1..10 |-> 0] \o <<255, 255>>
                     \o inet_pton_AF_INET(ip_string)]
    ELSE [status |-> "InvalidArgument", value |-> <<>>]

\* ------------------------------------------------------------------- time
\* A time is a number of clock ticks since 1970-01-01T00:00:00 UTC.

Hours(h) == h * 3600 * TicksPerSecond

\* Civil date (year, month, day) of a day number counted from 1970-01-01.
CivilFromDays(days) ==
    LET z   == days + 719468
        era == z \div 146097
        doe == z - era * 146097
        yoe == (doe - doe \div 1460 + doe \div 36524 - doe \div 146096) \div 365
        doy == doe - (365 * yoe + yoe \div 4 - yoe \div 100)
        mp  == (5 * doy + 2) \div 153
        d   == doy - (153 * mp + 2) \div 5 + 1
        m   == IF mp < 10 THEN mp + 3 ELSE mp - 9
        y   == yoe + era * 400 + (IF m <= 2 THEN 1 ELSE 0)
    IN  <<y, m, d>>

\* absl::FormatTime("%Y%m%d%H%M%S", t, UTC): the six zero-padded fields
\* YYYY MM DD HH MM SS; sub-second ticks are dropped.
FormatTime(t) ==
    LET secs == t \div TicksPerSecond
        sod  == secs % 86400
    IN  CivilFromDays(secs \div 86400)
        \o <<sod \div 3600, (sod % 3600) \div 60, sod % 60>>

\* ------------------------------------------------------------- file names

\* file::JoinPath(output_dir, name): one path inside output_dir.
JoinPath(dir, name) == <<dir, name>>

KeyFileName(output_dir, epoch_end_time_str) ==
    JoinPath(output_dir, <<"keys-", epoch_end_time_str, ".json">>)

\* Mutant: the custom file name is ignored, every run names a per-epoch file.
TokensDbFileName_PerEpoch(output_dir, custom_db_filename, epoch_end_time_str) ==
    JoinPath(output_dir, <<"tokens-", epoch_end_time_str, ".db">>)

TokensDbFileName(output_dir, custom_db_filename, epoch_end_time_str) ==
    IF custom_db_filename # ""
    THEN JoinPath(output_dir, <<custom_db_filename>>)
    ELSE JoinPath(output_dir, <<"tokens-", epoch_end_time_str, ".db">>)

\* ------------------------------------------------- key material and issuer
\* Fresh random key material is modelled by a tag and the number of the
\* run that drew it: two draws never coincide.

NoKey == <<"none", 0>>

NoKeypair == [public_key |-> NoKey, secret_key |-> NoKey]

GenerateElGamalKeypair(id) ==
    [public_key |-> <<"public_key", id>>, secret_key |-> <<"secret_key", id>>]

GenerateSecretKeyHMAC(id) == <<"secret_key_hmac", id>>

\* The public key matching a secret key.
PublicKeyOf(secret_key) == <<"public_key", secret_key[2]>>

\* An ElGamal ciphertext is opaque: it names the key it was made for and
\* seals the plaintext.
Encrypt(public_key, signal) == [key |-> public_key, sealed |-> signal]

\* Decryption with the matching secret key recovers the sealed signal;
\* with any other key it yields a value that is no signal.
Decrypt(secret_key, token) ==
    IF token.key = PublicKeyOf(secret_key) THEN token.sealed ELSE <<>>

\* The signal of a blinded token: 16 random bytes (distinct from every
\* signal of IpValues; a collision has probability 2^-128).
BlindedSignal == [i \in 1..16 |-> 170]

\* The bag holding n copies of x.
Copies(x, n) == IF n > 0 THEN [y \in {x} |-> n] ELSE EmptyBag

Issuer_Create(secret_key_hmac_, public_key) ==
    [secret_key_hmac |-> secret_key_hmac_, public_key |-> public_key]

\* Issuer::IssueTokens: exactly num_reveal tokens carry the signal, the
\* other num_tokens - num_reveal a blinded one; their order is random and
\* the batch is kept as a bag.
IssueTokens(issuer, signal, num_reveal, num_tokens) ==
    IF ~(0 <= num_reveal /\ num_reveal <= num_tokens)
    THEN [status |-> "InvalidArgument", tokens |-> EmptyBag]
    ELSE [status |-> "Ok",
          tokens |-> Copies(Encrypt(issuer.public_key, signal), num_reveal)
                     (+) Copies(Encrypt(issuer.public_key, BlindedSignal),
                                num_tokens - num_reveal)]

\* ---------------------------------------------------------------- storage

\* The record WriteKeysToFile serialises to the key file.
KeyFileRecord(keypair_, secret_key_hmac_, epoch_start, epoch_end) ==
    [public_key       |-> keypair_.public_key,
     secret_key       |-> keypair_.secret_key,
     secret_key_hmac  |-> secret_key_hmac_,
     epoch_start_time |-> epoch_start,
     epoch_end_time   |-> epoch_end]

\* WriteKeysToFile writes the record at path; it does not look for an
\* existing file (the caller must check existence first).
WriteKeysToFile(files, keypair_, secret_key_hmac_, path, epoch_start, epoch_end) ==
    (path :> KeyFileRecord(keypair_, secret_key_hmac_, epoch_start, epoch_end))
        @@ files

EmptyDb == [rows |-> EmptyBag, batches |-> <<>>]

\* One database row per token: ciphertext and epoch reference.
RowsOf(tokens_, epoch_end) ==
    [r \in {[ciphertext |-> t, epoch |-> FormatTime(epoch_end)]
              : t \in DOMAIN tokens_}
       |-> tokens_[r.ciphertext]]

\* WriteTokensToFile appends the rows and the batch metadata to the
\* database at db_path, creating it when it does not exist.
WriteTokensToFile(dbs, tokens_, public_key, p_reveal, epoch_end, db_path) ==
    LET db == IF db_path \in DOMAIN dbs THEN dbs[db_path] ELSE EmptyDb
    IN  (db_path :>
            [rows    |-> db.rows (+) RowsOf(tokens_, epoch_end),
             batches |-> Append(db.batches,
                                [public_key |-> public_key,
                                 p_reveal   |-> p_reveal,
                                 epoch_end  |-> epoch_end])])
        @@ dbs

\* ------------------------------------------------------------------ state

VARIABLES
    runs,              \* process invocations started so far
    pc,                \* position of the running process
    flags,             \* the parsed command line of the running process
    clock,             \* the wall clock read by absl::Now()
    keypair,           \* locals of GenerateAndStoreTokens
    secret_key_hmac,
    tokens,
    epoch_start_time,
    epoch_end_time,
    status,            \* the absl::Status GenerateAndStoreTokens returns
    exit_code,         \* what main returns (-1 while running)
    key_files,         \* file system: path -> key file record
    token_dbs,         \* file system: path -> token database
    trace,             \* history: library calls of this run, with outcome
    mint_time,         \* history: clock value when IssueTokens ran
    issued             \* history: the batches of the successful issue runs

vars == <<runs, pc, flags, clock, keypair, secret_key_hmac, tokens,
          epoch_start_time, epoch_end_time, status, exit_code,
          key_files, token_dbs, trace, mint_time, issued>>

DefaultFlags ==
    [command |-> "", ip |-> "", num_tokens |-> 100, p_reveal |-> 10,
     output_dir |-> "/tmp/", custom_db_filename |-> ""]

\* The command lines the model runs: every flag combination for `issue`,
\* the default flags for the other commands (they read no flag).
CommandLines ==
    {[command |-> "issue", ip |-> i, num_tokens |-> n, p_reveal |-> p,
      output_dir |-> d, custom_db_filename |-> c]
        : i \in IpValues, n \in NumTokensValues, p \in PRevealValues,
          d \in OutputDirValues, c \in CustomDbValues}
    \cup {[DefaultFlags EXCEPT !.command = c] : c \in CommandValues \ {"issue"}}

\* The command lines of repeated issue runs: one batch size, with and
\* without a shared database file, in two output directories, and one
\* run that fails validation.
RepeatedCommandLines ==
    {[command |-> "issue", ip |-> a[1], num_tokens |-> 3, p_reveal |-> 53,
      output_dir |-> a[2], custom_db_filename |-> a[3]]
        : a \in {<<"192.0.2.1", "/tmp/", "">>,
                 <<"192.0.2.1", "/tmp/", "shared.db">>,
                 <<"192.0.2.1", "/out/", "shared.db">>,
                 <<"not-an-ip", "/tmp/", "">>}}

OkStatus == [code |-> "Ok", message |-> ""]

InvalidArgumentError(msg) == [code |-> "InvalidArgument", message |-> msg]

InternalError(msg) == [code |-> "Internal", message |-> msg]

NoTime == -1

Init ==
    /\ runs = 0
    /\ pc = "idle"
    /\ flags = DefaultFlags
    /\ clock = 0
    /\ keypair = NoKeypair
    /\ secret_key_hmac = NoKey
    /\ tokens = EmptyBag
    /\ epoch_start_time = NoTime
    /\ epoch_end_time = NoTime
    /\ status = OkStatus
    /\ exit_code = -1
    /\ key_files = <<>>
    /\ token_dbs = <<>>
    /\ trace = <<>>
    /\ mint_time = NoTime
    /\ issued = <<>>

\* ------------------------------------------------------------ main pieces

\* Unused exit codes declared next to the workflow.
kErrorKeyGeneration == 1
kErrorSignalParsing == 2
kErrorTokenIssuance == 3
kErrorKeyWrite == 4
kErrorTokenWrite == 5

\* Mutant: main returns the declared per-category codes.
ExitCodeOfStatus_PerCategory(st) ==
    IF st.code = "Ok" THEN 0
    ELSE IF st.message = "Failed to generate ElGamal keypair."
    THEN kErrorKeyGeneration
    ELSE IF st.code = "InvalidArgument" THEN kErrorSignalParsing
    ELSE IF st.message = "Failed to write keys to file." THEN kErrorKeyWrite
    ELSE IF st.message = "Failed to write tokens to file." THEN kErrorTokenWrite
    ELSE kErrorTokenIssuance

\* main's mapping of the status of the issue command to the exit code.
ExitCodeOfStatus(st) == IF st.code = "Ok" THEN 0 ELSE 1

\* main's exit code for the commands that do not run the workflow:
\* no command 1, `verify` (a stub) 0, anything else 1.
ExitCodeOfCommand(command) ==
    IF command = "" THEN 1
    ELSE IF command = "verify" THEN 0
    ELSE 1

\* Mutant: the failure of a call is not acted upon.
ReturnOnError_FallThrough(ok, next) == next

\* `if (!x.ok()) return ...;`: the position after a library call.
ReturnOnError(ok, next) == IF ok THEN next ELSE "exited"

\* The num_reveal argument: static_cast<int>(p_reveal * num_tokens).
NumReveal(p_reveal, num_tokens) ==
    FloatToInt(FloatMulInt(ParseFloat(p_reveal), num_tokens))

\* Mutant: the secret half of the key pair is handed over.
TokensWriteArgs_SecretKey(tokens_, keypair_, secret_key_hmac_, p_reveal, epoch_end, file) ==
    [tokens     |-> tokens_,
     public_key |-> keypair_.secret_key,
     p_reveal   |-> ParseFloat(p_reveal),
     epoch_end  |-> epoch_end,
     db_path    |-> file]

\* What GenerateAndStoreTokens hands to WriteTokensToFile.
TokensWriteArgs(tokens_, keypair_, secret_key_hmac_, p_reveal, epoch_end, file) ==
    [tokens     |-> tokens_,
     public_key |-> keypair_.public_key,
     p_reveal   |-> ParseFloat(p_reveal),
     epoch_end  |-> epoch_end,
     db_path    |-> file]

key_file ==
    KeyFileName(flags.output_dir, FormatTime(epoch_end_time))

tokens_db_file ==
    TokensDbFileName(flags.output_dir, flags.custom_db_filename,
                     FormatTime(epoch_end_time))

Log(step, ok) == Append(trace, [step |-> step, ok |-> ok])

\* The process ends: GenerateAndStoreTokens returned st to main.
Return(st) ==
    /\ status' = st
    /\ exit_code' = ExitCodeOfStatus(st)

Running ==
    /\ status' = status
    /\ exit_code' = exit_code

\* ---------------------------------------------------------------- actions

\* A process starts: main parses the command line and dispatches; for
\* `issue`, GenerateAndStoreTokens validates --ip first.
Main(command_lines) ==
    /\ pc \in {"idle", "exited"}
    /\ \E f \in command_lines :
        /\ flags' = f
        /\ runs' = runs + 1
        /\ keypair' = NoKeypair
        /\ secret_key_hmac' = NoKey
        /\ tokens' = EmptyBag
        /\ epoch_start_time' = NoTime
        /\ epoch_end_time' = NoTime
        /\ trace' = <<>>
        /\ mint_time' = NoTime
        /\ IF f.command # "issue"
           THEN /\ status' = OkStatus
                /\ exit_code' = ExitCodeOfCommand(f.command)
                /\ pc' = "exited"
           ELSE IF ~IsValidIPAddress(f.ip)
           THEN /\ Return(InvalidArgumentError("Invalid IP address."))
                /\ pc' = "exited"
           ELSE /\ status' = OkStatus
                /\ exit_code' = -1
                /\ pc' = "GenerateElGamalKeypair"
    /\ UNCHANGED <<clock, key_files, token_dbs, issued>>

\* prtoken::GenerateElGamalKeypair() and GenerateSecretKeyHMAC().
GenerateKeys ==
    /\ pc = "GenerateElGamalKeypair"
    /\ \E ok \in BOOLEAN :
        /\ trace' = Log("GenerateElGamalKeypair", ok)
        /\ pc' = ReturnOnError(ok, "Issuer::Create")
        /\ IF ok
           THEN /\ keypair' = GenerateElGamalKeypair(runs)
                /\ secret_key_hmac' = GenerateSecretKeyHMAC(runs)
                /\ Running
           ELSE /\ UNCHANGED <<keypair, secret_key_hmac>>
                /\ Return(InternalError("Failed to generate ElGamal keypair."))
    /\ UNCHANGED <<runs, flags, clock, tokens, epoch_start_time,
                   epoch_end_time, key_files, token_dbs, mint_time, issued>>

\* prtoken::Issuer::Create(secret_key_hmac, keypair.public_key()).
CreateIssuer ==
    /\ pc = "Issuer::Create"
    /\ \E ok \in BOOLEAN :
        /\ trace' = Log("Issuer::Create", ok)
        /\ pc' = ReturnOnError(ok, "IssueTokens")
        /\ IF ok THEN Running
                 ELSE Return(InternalError("Failed to create issuer."))
    /\ UNCHANGED <<runs, flags, clock, keypair, secret_key_hmac, tokens,
                   epoch_start_time, epoch_end_time, key_files, token_dbs,
                   mint_time, issued>>

\* IPStringToByteArray(ip) and issuer->IssueTokens(...); crypto_ok is
\* whether curve-point encoding and encryption succeed.
MintTokens ==
    /\ pc = "IssueTokens"
    /\ LET signal_or == IPStringToByteArray(flags.ip)
           issuer == Issuer_Create(secret_key_hmac, keypair.public_key)
           res == IssueTokens(issuer, signal_or.value,
                              NumReveal(flags.p_reveal, flags.num_tokens),
                              flags.num_tokens)
       IN  IF signal_or.status # "Ok"
           THEN /\ Return([code |-> signal_or.status,
                           message |-> "Invalid IPv4 or IPv6 address."])
                /\ pc' = "exited"
                /\ UNCHANGED <<tokens, trace, mint_time>>
           ELSE \E crypto_ok \in BOOLEAN :
                LET ok == res.status = "Ok" /\ crypto_ok
                IN  /\ trace' = Log("IssueTokens", ok)
                    /\ mint_time' = clock
                    /\ pc' = ReturnOnError(ok, "Now")
                    /\ IF ok
                       THEN /\ tokens' = res.tokens
                            /\ Running
                       ELSE /\ UNCHANGED tokens
                            /\ Return(InternalError("Failed to issue tokens."))
    /\ UNCHANGED <<runs, flags, clock, keypair, secret_key_hmac,
                   epoch_start_time, epoch_end_time, key_files, token_dbs,
                   issued>>

\* const absl::Time epoch_start_time = absl::Now();
ReadEpochStart ==
    /\ pc = "Now"
    /\ epoch_start_time' = clock
    /\ pc' = "Now + Hours(24)"
    /\ UNCHANGED <<runs, flags, clock, keypair, secret_key_hmac, tokens,
                   epoch_end_time, status, exit_code, key_files, token_dbs,
                   trace, mint_time, issued>>

\* const absl::Time epoch_end_time = absl::Now() + absl::Hours(24);
ReadEpochEnd ==
    /\ pc = "Now + Hours(24)"
    /\ epoch_end_time' = clock + Hours(24)
    /\ pc' = "WriteKeysToFile"
    /\ UNCHANGED <<runs, flags, clock, keypair, secret_key_hmac, tokens,
                   epoch_start_time, status, exit_code, key_files, token_dbs,
                   trace, mint_time, issued>>

\* prtoken::WriteKeysToFile(keypair, secret_key_hmac, key_file, ...).
WriteKeys ==
    /\ pc = "WriteKeysToFile"
    /\ \E ok \in BOOLEAN :
        /\ trace' = Log("WriteKeysToFile", ok)
        /\ pc' = ReturnOnError(ok, "WriteTokensToFile")
        /\ IF ok
           THEN /\ key_files' = WriteKeysToFile(key_files, keypair,
                                    secret_key_hmac, key_file,
                                    epoch_start_time, epoch_end_time)
                /\ Running
           ELSE /\ UNCHANGED key_files
                /\ Return(InternalError("Failed to write keys to file."))
    /\ UNCHANGED <<runs, flags, clock, keypair, secret_key_hmac, tokens,
                   epoch_start_time, epoch_end_time, token_dbs, mint_time,
                   issued>>

\* prtoken::WriteTokensToFile(tokens, keypair.public_key(), p_reveal,
\* epoch_end_time, tokens_db_file), then return absl::OkStatus().
WriteTokens ==
    /\ pc = "WriteTokensToFile"
    /\ \E ok \in BOOLEAN :
        LET a == TokensWriteArgs(tokens, keypair, secret_key_hmac,
                                 flags.p_reveal, epoch_end_time, tokens_db_file)
        IN  /\ trace' = Log("WriteTokensToFile", ok)
            /\ pc' = "exited"
            /\ IF ok
               THEN /\ token_dbs' = WriteTokensToFile(token_dbs, a.tokens,
                                        a.public_key, a.p_reveal, a.epoch_end,
                                        a.db_path)
                    /\ issued' = Append(issued,
                                     [flags |-> flags,
                                      rows  |-> RowsOf(tokens, epoch_end_time)])
                    /\ Return(OkStatus)
               ELSE /\ UNCHANGED <<token_dbs, issued>>
                    /\ Return(InternalError("Failed to write tokens to file."))
    /\ UNCHANGED <<runs, flags, clock, keypair, secret_key_hmac, tokens,
                   epoch_start_time, epoch_end_time, key_files, mint_time>>

\* Time passes.
Tick ==
    /\ clock < MaxClock
    /\ clock' = clock + 1
    /\ UNCHANGED <<runs, pc, flags, keypair, secret_key_hmac, tokens,
                   epoch_start_time, epoch_end_time, status, exit_code,
                   key_files, token_dbs, trace, mint_time, issued>>

\* The binary is run once, with any command line.
RunOnce ==
    /\ runs = 0
    /\ Main(CommandLines)

\* The binary is run again and again, as an operator issuing batches does.
RunAgain ==
    /\ runs < MaxRuns
    /\ Main(RepeatedCommandLines)

Next ==
    \/ RunOnce
    \/ GenerateKeys
    \/ CreateIssuer
    \/ MintTokens
    \/ ReadEpochStart
    \/ ReadEpochEnd
    \/ WriteKeys
    \/ WriteTokens
    \/ Tick

Spec == Init /\ [][Next]_vars

NextRuns ==
    \/ RunAgain
    \/ GenerateKeys
    \/ CreateIssuer
    \/ MintTokens
    \/ ReadEpochStart
    \/ ReadEpochEnd
    \/ WriteKeys
    \/ WriteTokens
    \/ Tick

\* Several runs of the binary, one after the other, on one file system.
SpecRuns == Init /\ [][NextRuns]_vars

\* ----------------------------------------------------------------- claims

IssueRun == flags.command = "issue"

Exited == pc = "exited"

\* No inet_pton call accepts the string.
NotAnIp(ip_string) ==
    /\ inet_pton_AF_INET(ip_string) = <<>>
    /\ inet_pton_AF_INET6(ip_string) = <<>>

Called(step) == \E i \in 1..Len(trace) : trace[i].step = step

Succeeded(step) ==
    \E i \in 1..Len(trace) : trace[i].step = step /\ trace[i].ok

\* C1: an issue run whose --ip is neither an IPv4 nor an IPv6 literal ends
\* with InvalidArgument before any key generation: no library call was
\* made, no key material exists, no key file and no database was written.
C1_InvalidIpFailsFirst ==
    (IssueRun /\ NotAnIp(flags.ip)) =>
        /\ Exited
        /\ status.code = "InvalidArgument"
        /\ exit_code = 1
        /\ trace = <<>>
        /\ keypair = NoKeypair
        /\ secret_key_hmac = NoKey
        /\ key_files = <<>>
        /\ token_dbs = <<>>

C1_Witness ==
    /\ Exited
    /\ IssueRun
    /\ flags.ip = "not-an-ip"
    /\ status = InvalidArgumentError("Invalid IP address.")

StepOrder ==
    <<"GenerateElGamalKeypair", "Issuer::Create", "IssueTokens",
      "WriteKeysToFile", "WriteTokensToFile">>

\* C2: the calls of a run are made in the order key generation, token
\* issuance, key file write, database write; a failed call is the last
\* one; the key file exists only if IssueTokens succeeded and the
\* database only if the key file was written.
C2_StepsInOrder ==
    /\ Len(trace) <= Len(StepOrder)
    /\ \A i \in 1..Len(trace) :
          /\ trace[i].step = StepOrder[i]
          /\ i < Len(trace) => trace[i].ok
    /\ key_files # <<>> => Succeeded("IssueTokens")
    /\ token_dbs # <<>> =>
          /\ Succeeded("WriteKeysToFile")
          /\ key_file \in DOMAIN key_files

C2_Witness ==
    /\ Exited
    /\ Len(trace) = 4
    /\ ~trace[4].ok
    /\ key_files = <<>>
    /\ token_dbs = <<>>

\* The run ended with exit code 0 after the whole issue workflow.
IssueSucceeded == Exited /\ IssueRun /\ exit_code = 0

\* Number of tokens of the batch that decrypt, with secret key sk, to sig.
DecryptingTo(batch, sk, sig) ==
    BagCardinality([t \in {u \in DOMAIN batch : Decrypt(sk, u) = sig}
                      |-> batch[t]])

\* floor(p_reveal * num_tokens) for the decimal p_reveal = hundredths / 100
\* and num_tokens >= 0.
FloorOfProduct(hundredths, num_tokens) == (hundredths * num_tokens) \div 100

\* C3: a successful issue run with num_tokens = N >= 0 and
\* 0 <= p_reveal <= 1 issues exactly N tokens, of which exactly
\* floor(p_reveal * N) decrypt to the signal and the others to something
\* else.
C3_FloorOfProductRevealed ==
    (IssueSucceeded /\ flags.num_tokens >= 0
        /\ 0 <= flags.p_reveal /\ flags.p_reveal <= 100) =>
        LET sig == IPStringToByteArray(flags.ip).value
            revealed == DecryptingTo(tokens, keypair.secret_key, sig)
        IN  /\ BagCardinality(tokens) = flags.num_tokens
            /\ revealed = FloorOfProduct(flags.p_reveal, flags.num_tokens)

\* C5: the tokens of a successful run were minted inside the validity
\* window written to the key file of the run.
C5_MintedInsideWindow ==
    (IssueSucceeded /\ tokens # EmptyBag /\ key_file \in DOMAIN key_files) =>
        /\ key_files[key_file].epoch_start_time <= mint_time
        /\ mint_time < key_files[key_file].epoch_end_time

\* C10: every key file holds a validity window of exactly 24 hours.
C10_WindowIs24Hours ==
    \A f \in DOMAIN key_files :
        key_files[f].epoch_end_time - key_files[f].epoch_start_time
            = Hours(24)

\* The number passed as num_reveal, or num_tokens itself, is out of range.
CountsOutOfRange ==
    LET num_reveal == NumReveal(flags.p_reveal, flags.num_tokens)
    IN  \/ flags.num_tokens < 0
        \/ num_reveal < 0
        \/ num_reveal > flags.num_tokens

\* C8: an issue run that reaches IssueTokens with counts out of range ends
\* with an error of kind InvalidArgument.
C8_OutOfRangeIsInvalidArgument ==
    (Exited /\ IssueRun /\ Called("IssueTokens") /\ CountsOutOfRange) =>
        status.code = "InvalidArgument"

\* The secret values drawn so far: private keys and HMAC secrets.
Secrets ==
    {GenerateElGamalKeypair(i).secret_key : i \in 1..runs}
    \cup {GenerateSecretKeyHMAC(i) : i \in 1..runs}

\* The key-typed values a token database holds.
KeysIn(db) ==
    {db.batches[i].public_key : i \in 1..Len(db.batches)}
    \cup {r.ciphertext.key : r \in DOMAIN db.rows}

\* C6: no token database holds a private key or an HMAC secret; the
\* private key of a run is held by its key file only.
C6_NoSecretInTokenDb ==
    \A f \in DOMAIN token_dbs : KeysIn(token_dbs[f]) \cap Secrets = {}

C6_Witness ==
    /\ IssueSucceeded
    /\ tokens # EmptyBag
    /\ tokens_db_file \in DOMAIN token_dbs
    /\ keypair.public_key \in KeysIn(token_dbs[tokens_db_file])
    /\ key_files[key_file].secret_key = keypair.secret_key

\* The requested command did what it is for: `verify` is a stub that
\* always succeeds, `issue` succeeds when its batch reached the database.
CommandSucceeded ==
    \/ flags.command = "verify"
    \/ /\ IssueRun
       /\ Succeeded("WriteTokensToFile")
       /\ token_dbs # <<>>

\* C9: the exit code is 0 exactly when the command succeeded and 1 for
\* every failure, whatever step failed.
C9_ExitCodeZeroOrOne ==
    Exited =>
        /\ exit_code \in {0, 1}
        /\ exit_code = 0 <=> CommandSucceeded

C9_Witness ==
    /\ Exited
    /\ exit_code = 1
    /\ status = InternalError("Failed to write keys to file.")

\* C4: a key file, once written, is never replaced: one key material per
\* epoch_id.
C4_KeyFileNeverReplaced ==
    [][\A f \in DOMAIN key_files :
          /\ f \in DOMAIN key_files'
          /\ key_files'[f] = key_files[f]]_vars

\* C7: the batches of two successful runs with the same custom database
\* file name and output directory are both in that one database file.
C7_SharedDbHoldsBothBatches ==
    \A i, j \in 1..Len(issued) :
        (/\ i < j
         /\ issued[i].flags.custom_db_filename # ""
         /\ issued[i].flags.custom_db_filename
               = issued[j].flags.custom_db_filename
         /\ issued[i].flags.output_dir = issued[j].flags.output_dir) =>
            LET f == <<issued[i].flags.output_dir,
                       <<issued[i].flags.custom_db_filename>>>>
            IN  /\ f \in DOMAIN token_dbs
                /\ (issued[i].rows (+) issued[j].rows)
                       \sqsubseteq token_dbs[f].rows
                /\ Len(token_dbs[f].batches) >= 2

C7_Witness ==
    /\ Len(issued) = 2
    /\ issued[1].flags.custom_db_filename = "shared.db"
    /\ issued[2].flags.custom_db_filename = "shared.db"
    /\ issued[1].flags.output_dir = issued[2].flags.output_dir
    /\ issued[1].rows # EmptyBag
    /\ issued[2].rows # EmptyBag
    /\ issued[1].rows # issued[2].rows
    /\ BagCardinality(
           token_dbs[<<issued[1].flags.output_dir, <<"shared.db">>>>].rows) = 6

====
